---------------------------- MODULE Spec2Model ----------------------------
(***************************************************************************)
(* A model of src/src/05-objects-tasks.js: the Rectangle factory and the   *)
(* CssSelectorBuilder class with its cssSelectorBuilder facade.            *)
(*                                                                         *)
(* JavaScript objects are references.  Each CssSelectorBuilder instance is *)
(* an entry of `chains`; its cssArray field is a reference into `heap`,    *)
(* the store of array objects, so that push (which mutates an array in     *)
(* place) and concat (which allocates a new array) keep their meaning.     *)
(* Strings are TLA+ strings, built with \o as the template literals do.    *)
(***************************************************************************)
EXTENDS Integers, Sequences, FiniteSets, TLC

(* ------------------------------ bounds -------------------------------- *)

\* chains that the facade may create in one run
MaxChains == 3

\* calls (facade or method) made in one run
MaxCalls == 3

\* calls made in one run that follows a single chain
MaxChainCalls == 6

\* calls that build the operands of a nested combine
MaxNestedCalls == 2

\* operand chains built for a nested combine
MaxOperands == 3

\* widths and heights range over -MaxDim..MaxDim
MaxDim == 3

\* calls made on the rectangle in one run
MaxRectCalls == 3

\* selector names, attribute specs and combinator tokens passed by callers
Values == {"a", "b"}

Combinators == {"+", " "}

Dims == (0 - MaxDim)..MaxDim

(* ------------------------------- state -------------------------------- *)

VARIABLES
  chains,   \* the CssSelectorBuilder instances, in order of construction
  heap,     \* the array objects; chains[c].cssArray is an index into heap
  last,     \* the most recent call: receiver, method, arguments, outcome
  calls,    \* number of calls made so far
  hist,     \* per chain: accepted append calls since construction, and
            \* how often it was stringified, how many of those calls preceded
            \* the last stringify (mark), whether combine ever wrote it
  budget,   \* how many chains and calls this run may make (fixed by Init)
  nested,   \* what the two nestings of a double combine returned
  rect,     \* the object returned by Rectangle: its width and height fields
  closure,  \* the parameters width and height captured by getArea
  area,     \* what the most recent getArea() returned
  rectLast, \* the most recent operation on the rectangle
  assigned, \* whether r.width or r.height was assigned after construction
  rectCalls \* number of operations on the rectangle so far

builderVars == <<chains, heap, last, calls, hist, budget, nested>>

rectVars == <<rect, closure, area, rectLast, assigned, rectCalls>>

vars == <<chains, heap, last, calls, hist, budget, nested, rect, closure, area,
          rectLast, assigned, rectCalls>>

\* the shape of the state
TypeOK ==
  /\ \A c \in DOMAIN chains :
       /\ chains[c].previousSelector \in {"", "element", "id", "pseudoElement"}
       /\ chains[c].cssArray \in DOMAIN heap
       /\ chains[c].order \in -1..5
  /\ DOMAIN hist = DOMAIN chains
  /\ calls \in 0..budget.calls
  /\ Len(chains) <= budget.chains
  /\ rect.width \in Dims /\ rect.height \in Dims
  /\ closure.width \in Dims /\ closure.height \in Dims
  /\ assigned \in BOOLEAN
  /\ rectCalls \in 0..MaxRectCalls

(* ------------------------ CssSelectorBuilder -------------------------- *)

\* the two messages thrown by the append methods
DuplicateExclusive == "Element, id and pseudo-element should not occur more then one time inside the selector"

OutOfOrder == "Selector parts should be arranged in the following order: element, id, class, attribute, pseudo-class, pseudo-element"

\* a throw leaves the store as it is and reports the message
Throw(st, msg) ==
  [chains |-> st.chains, heap |-> st.heap, outcome |-> msg, result |-> ""]

\* this.previousSelector = p; this.cssArray.push(frag); this.order = o; return this
PushFragment(st, this, p, frag, o) ==
  LET ref == st.chains[this].cssArray IN
  [chains  |-> [st.chains EXCEPT ![this] =
                  [previousSelector |-> p, cssArray |-> ref, order |-> o]],
   heap    |-> [st.heap EXCEPT ![ref] = Append(@, frag)],
   outcome |-> "ok",
   result  |-> ""]

\* new CssSelectorBuilder(): a new instance with a new empty array
constructor(st) ==
  [chains |-> Append(st.chains,
                [previousSelector |-> "", cssArray |-> Len(st.heap) + 1, order |-> -1]),
   heap   |-> Append(st.heap, <<>>)]

\* join() with its default separator
RECURSIVE JoinDefaultSeparator(_)
JoinDefaultSeparator(arr) ==
  IF arr = <<>> THEN ""
  ELSE IF Tail(arr) = <<>> THEN Head(arr)
  ELSE Head(arr) \o "," \o JoinDefaultSeparator(Tail(arr))

\* Array.prototype.join('')
RECURSIVE Join(_)
Join(arr) == IF arr = <<>> THEN "" ELSE Head(arr) \o Join(Tail(arr))

\* stringify() resetting order too, as the constructor sets it
stringify_ResetsOrder(st, this) ==
  [chains  |-> [st.chains EXCEPT ![this] =
                  [previousSelector |-> "", cssArray |-> Len(st.heap) + 1, order |-> -1]],
   heap    |-> Append(st.heap, <<>>),
   outcome |-> "ok",
   result  |-> Join(st.heap[st.chains[this].cssArray])]

\* stringify() that forgets to replace the array
stringify_KeepsArray(st, this) ==
  [chains  |-> [st.chains EXCEPT ![this].previousSelector = ""],
   heap    |-> st.heap,
   outcome |-> "ok",
   result  |-> Join(st.heap[st.chains[this].cssArray])]

\* stringify(): join the array, then replace it by a new empty one
stringify(st, this) ==
  LET s == st.chains[this] IN
  [chains  |-> [st.chains EXCEPT ![this] =
                  [previousSelector |-> "", cssArray |-> Len(st.heap) + 1, order |-> s.order]],
   heap    |-> Append(st.heap, <<>>),
   outcome |-> "ok",
   result  |-> Join(st.heap[s.cssArray])]

\* element() without its ordering check
element_NoOrderCheck(st, this, value) ==
  IF st.chains[this].previousSelector = "element" THEN Throw(st, DuplicateExclusive)
  ELSE PushFragment(st, this, "element", value, 0)

element(st, this, value) ==
  IF st.chains[this].previousSelector = "element" THEN Throw(st, DuplicateExclusive)
  ELSE IF st.chains[this].order > 0 THEN Throw(st, OutOfOrder)
  ELSE PushFragment(st, this, "element", value, 0)

\* id() setting previousSelector before its ordering check
id_MarksBeforeOrderCheck(st, this, value) ==
  IF st.chains[this].previousSelector = "id" THEN Throw(st, DuplicateExclusive)
  ELSE IF st.chains[this].order > 1
       THEN Throw([st EXCEPT !.chains[this].previousSelector = "id"], OutOfOrder)
  ELSE PushFragment(st, this, "id", "#" \o value, 1)

id(st, this, value) ==
  IF st.chains[this].previousSelector = "id" THEN Throw(st, DuplicateExclusive)
  ELSE IF st.chains[this].order > 1 THEN Throw(st, OutOfOrder)
  ELSE PushFragment(st, this, "id", "#" \o value, 1)

\* class() without its ordering check
class_NoOrderCheck(st, this, value) ==
  PushFragment(st, this, "", "." \o value, 2)

\* class() rejecting an equal rank too
class_RejectsEqualRank(st, this, value) ==
  IF st.chains[this].order >= 2 THEN Throw(st, OutOfOrder)
  ELSE PushFragment(st, this, "", "." \o value, 2)

class(st, this, value) ==
  IF st.chains[this].order > 2 THEN Throw(st, OutOfOrder)
  ELSE PushFragment(st, this, "", "." \o value, 2)

attr(st, this, value) ==
  IF st.chains[this].order > 3 THEN Throw(st, OutOfOrder)
  ELSE PushFragment(st, this, "", "[" \o value \o "]", 3)

pseudoClass(st, this, value) ==
  IF st.chains[this].order > 4 THEN Throw(st, OutOfOrder)
  ELSE PushFragment(st, this, "", ":" \o value, 4)

\* pseudoElement() leaving order as it is
pseudoElement_KeepsOrder(st, this, value) ==
  IF st.chains[this].previousSelector = "pseudoElement" THEN Throw(st, DuplicateExclusive)
  ELSE PushFragment(st, this, "pseudoElement", "::" \o value, st.chains[this].order)

\* pseudoElement() with the ordering check of its neighbours
pseudoElement_WithOrderCheck(st, this, value) ==
  IF st.chains[this].previousSelector = "pseudoElement" THEN Throw(st, DuplicateExclusive)
  ELSE IF st.chains[this].order > 4 THEN Throw(st, OutOfOrder)
  ELSE PushFragment(st, this, "pseudoElement", "::" \o value, 5)

pseudoElement(st, this, value) ==
  IF st.chains[this].previousSelector = "pseudoElement" THEN Throw(st, DuplicateExclusive)
  ELSE PushFragment(st, this, "pseudoElement", "::" \o value, 5)

\* combine() written with spread, leaving the spaces around the combinator out
combine_NoSpaces(st, this, selector1, combinator, selector2) ==
  [chains  |-> [st.chains EXCEPT ![this].cssArray = Len(st.heap) + 1],
   heap    |-> Append(st.heap,
                 st.heap[st.chains[this].cssArray]
                   \o st.heap[st.chains[selector1].cssArray]
                   \o <<combinator>>
                   \o st.heap[st.chains[selector2].cssArray]),
   outcome |-> "ok",
   result  |-> ""]

\* combine() that pushes the combinator and selector2's fragments onto
\* selector1's own array before concatenating it
combine_PushesOntoOperand(st, this, selector1, combinator, selector2) ==
  LET ref1   == st.chains[selector1].cssArray
      pushed == st.heap[ref1] \o <<" " \o combinator \o " ">>
                  \o st.heap[st.chains[selector2].cssArray]
  IN
  [chains  |-> [st.chains EXCEPT ![this].cssArray = Len(st.heap) + 1],
   heap    |-> Append([st.heap EXCEPT ![ref1] = pushed],
                 st.heap[st.chains[this].cssArray] \o pushed),
   outcome |-> "ok",
   result  |-> ""]

\* combine() starting the receiver over, as the constructor does
combine_ResetsTracking(st, this, selector1, combinator, selector2) ==
  [chains  |-> [st.chains EXCEPT ![this] =
                  [previousSelector |-> "", cssArray |-> Len(st.heap) + 1, order |-> -1]],
   heap    |-> Append(st.heap,
                 st.heap[st.chains[this].cssArray]
                   \o st.heap[st.chains[selector1].cssArray]
                   \o <<" " \o combinator \o " ">>
                   \o st.heap[st.chains[selector2].cssArray]),
   outcome |-> "ok",
   result  |-> ""]

\* combine() that reads selector2 by stringify(), which empties it
combine_ConsumesRight(st, this, selector1, combinator, selector2) ==
  LET read == stringify(st, selector2) IN
  [chains  |-> [read.chains EXCEPT ![this].cssArray = Len(read.heap) + 1],
   heap    |-> Append(read.heap,
                 st.heap[st.chains[this].cssArray]
                   \o st.heap[st.chains[selector1].cssArray]
                   \o <<" " \o combinator \o " ">>
                   \o <<read.result>>),
   outcome |-> "ok",
   result  |-> ""]

\* combine(): concat allocates a new array (the two intermediate arrays of the
\* concat chain are never referenced again and are not kept in the heap)
combine(st, this, selector1, combinator, selector2) ==
  [chains  |-> [st.chains EXCEPT ![this].cssArray = Len(st.heap) + 1],
   heap    |-> Append(st.heap,
                 st.heap[st.chains[this].cssArray]
                   \o st.heap[st.chains[selector1].cssArray]
                   \o <<" " \o combinator \o " ">>
                   \o st.heap[st.chains[selector2].cssArray]),
   outcome |-> "ok",
   result  |-> ""]

AppendOps == {"element", "id", "class", "attr", "pseudoClass", "pseudoElement"}

\* method dispatch: chain[op](value)
CallAppend(st, this, op, value) ==
  CASE op = "element"       -> element(st, this, value)
    [] op = "id"            -> id(st, this, value)
    [] op = "class"         -> class(st, this, value)
    [] op = "attr"          -> attr(st, this, value)
    [] op = "pseudoClass"   -> pseudoClass(st, this, value)
    [] op = "pseudoElement" -> pseudoElement(st, this, value)

(* ------------------------------ actions -------------------------------- *)

Store == [chains |-> chains, heap |-> heap]

NoCall == [chain |-> 0, op |-> "none", value |-> "", left |-> 0, right |-> 0,
           facade |-> FALSE, outcome |-> "ok", result |-> ""]

NoNested == [done |-> FALSE, a |-> 0, c1 |-> "", b |-> 0, c2 |-> "", d |-> 0,
             left |-> "", right |-> ""]

NewHist == [log |-> <<>>, stringifies |-> 0, mark |-> 0, combined |-> FALSE]

\* the bookkeeping of a call: r is what the method returned
Record(r, this, op, value, l, rt, fac, h) ==
  /\ chains' = r.chains
  /\ heap' = r.heap
  /\ last' = [chain |-> this, op |-> op, value |-> value, left |-> l, right |-> rt,
              facade |-> fac, outcome |-> r.outcome, result |-> r.result]
  /\ calls' = calls + 1
  /\ hist' = h
  /\ UNCHANGED <<budget, nested>>
  /\ UNCHANGED rectVars

LogAppend(h, this, op, value, r) ==
  IF r.outcome = "ok"
  THEN [h EXCEPT ![this].log = Append(@, [op |-> op, value |-> value])]
  ELSE h

\* chain.element(v), chain.id(v), ... on an existing chain
MethodAppend(this, op, value) ==
  /\ calls < budget.calls
  /\ this \in DOMAIN chains
  /\ LET r == CallAppend(Store, this, op, value) IN
       Record(r, this, op, value, 0, 0, FALSE, LogAppend(hist, this, op, value, r))

\* chain.stringify()
MethodStringify(this) ==
  /\ calls < budget.calls
  /\ this \in DOMAIN chains
  /\ Record(stringify(Store, this), this, "stringify", "", 0, 0, FALSE,
            [hist EXCEPT ![this].stringifies = @ + 1,
                         ![this].mark = Len(hist[this].log)])

\* chain.combine(selector1, combinator, selector2)
MethodCombine(this, selector1, combinator, selector2) ==
  /\ calls < budget.calls
  /\ this \in DOMAIN chains
  /\ selector1 \in DOMAIN chains
  /\ selector2 \in DOMAIN chains
  /\ Record(combine(Store, this, selector1, combinator, selector2),
            this, "combine", combinator, selector1, selector2, FALSE,
            [hist EXCEPT ![this].combined = TRUE])

\* cssSelectorBuilder.element(v), .id(v), ...: construct, apply, return
FacadeAppend(op, value) ==
  /\ calls < budget.calls
  /\ Len(chains) < budget.chains
  /\ LET this == Len(chains) + 1
         r == CallAppend(constructor(Store), this, op, value)
     IN Record(r, this, op, value, 0, 0, TRUE,
               LogAppend(Append(hist, NewHist), this, op, value, r))

\* cssSelectorBuilder.combine(selector1, combinator, selector2)
FacadeCombine(selector1, combinator, selector2) ==
  /\ calls < budget.calls
  /\ Len(chains) < budget.chains
  /\ selector1 \in DOMAIN chains
  /\ selector2 \in DOMAIN chains
  /\ LET this == Len(chains) + 1 IN
       Record(combine(constructor(Store), this, selector1, combinator, selector2),
              this, "combine", combinator, selector1, selector2, TRUE,
              Append(hist, [NewHist EXCEPT !.combined = TRUE]))

\* cssSelectorBuilder.combine(selector1, combinator, selector2) in store st:
\* the new chain is the last of the result's chains
FacadeCombineIn(st, selector1, combinator, selector2) ==
  combine(constructor(st), Len(st.chains) + 1, selector1, combinator, selector2)

\* the caller evaluates, one after the other,
\*   combine(combine(a, c1, b), c2, d).stringify()
\*   combine(a, c1, combine(b, c2, d)).stringify()
\* with cssSelectorBuilder.combine: four new chains, two of them stringified
NestedCombine(a, c1, b, c2, d) ==
  /\ ~nested.done
  /\ a \in DOMAIN chains /\ b \in DOMAIN chains /\ d \in DOMAIN chains
  /\ Len(chains) + 4 <= budget.chains
  /\ \E s1 \in {FacadeCombineIn(Store, a, c1, b)} :
     \E s2 \in {FacadeCombineIn(s1, Len(chains) + 1, c2, d)} :
     \E s3 \in {stringify(s2, Len(chains) + 2)} :
     \E s4 \in {FacadeCombineIn(s3, b, c2, d)} :
     \E s5 \in {FacadeCombineIn(s4, a, c1, Len(chains) + 3)} :
     \E s6 \in {stringify(s5, Len(chains) + 4)} :
       LET made == [NewHist EXCEPT !.combined = TRUE]
           read == [made EXCEPT !.stringifies = 1]
       IN
       /\ chains' = s6.chains
       /\ heap' = s6.heap
       /\ last' = [chain |-> Len(chains) + 4, op |-> "stringify", value |-> "",
                   left |-> 0, right |-> 0, facade |-> FALSE,
                   outcome |-> s6.outcome, result |-> s6.result]
       /\ hist' = hist \o <<made, read, made, read>>
       /\ nested' = [done |-> TRUE, a |-> a, c1 |-> c1, b |-> b, c2 |-> c2, d |-> d,
                     left |-> s3.result, right |-> s6.result]
       /\ UNCHANGED <<calls, budget>>
       /\ UNCHANGED rectVars

(* ------------------------------ Rectangle ------------------------------ *)

NoRect == [width |-> 0, height |-> 0]

\* Rectangle(width, height): the object literal { width, height, getArea }
Rectangle(width, height) == [width |-> width, height |-> height]

\* getArea() adding instead of multiplying
getArea_Sum(env) == env.width + env.height

\* getArea() { return width * height; } : the parameters, not the fields
getArea(env) == env.width * env.height

NewRectangle(width, height) ==
  /\ rectLast = "none"
  /\ rect' = Rectangle(width, height)
  /\ closure' = [width |-> width, height |-> height]
  /\ rectLast' = "new"
  /\ UNCHANGED <<area, assigned, rectCalls>>
  /\ UNCHANGED builderVars

\* r.width = v
SetWidth(v) ==
  /\ rectLast # "none"
  /\ rectCalls < MaxRectCalls
  /\ rect' = [rect EXCEPT !.width = v]
  /\ rectLast' = "set"
  /\ assigned' = TRUE
  /\ rectCalls' = rectCalls + 1
  /\ UNCHANGED <<closure, area>>
  /\ UNCHANGED builderVars

\* r.height = v
SetHeight(v) ==
  /\ rectLast # "none"
  /\ rectCalls < MaxRectCalls
  /\ rect' = [rect EXCEPT !.height = v]
  /\ rectLast' = "set"
  /\ assigned' = TRUE
  /\ rectCalls' = rectCalls + 1
  /\ UNCHANGED <<closure, area>>
  /\ UNCHANGED builderVars

\* r.getArea()
GetArea ==
  /\ rectLast # "none"
  /\ rectCalls < MaxRectCalls
  /\ area' = getArea(closure)
  /\ rectLast' = "getArea"
  /\ rectCalls' = rectCalls + 1
  /\ UNCHANGED <<rect, closure, assigned>>
  /\ UNCHANGED builderVars

(* --------------------------- specifications ---------------------------- *)

Init ==
  /\ chains = <<>>
  /\ heap = <<>>
  /\ last = NoCall
  /\ calls = 0
  /\ hist = <<>>
  /\ budget = [chains |-> MaxChains, calls |-> MaxCalls]
  /\ nested = NoNested
  /\ rect = NoRect
  /\ closure = NoRect
  /\ area = 0
  /\ rectLast = "none"
  /\ assigned = FALSE
  /\ rectCalls = 0

Next ==
  \/ \E op \in AppendOps, v \in Values : FacadeAppend(op, v)
  \/ \E l \in DOMAIN chains, r \in DOMAIN chains, c \in Combinators : FacadeCombine(l, c, r)
  \/ \E t \in DOMAIN chains, op \in AppendOps, v \in Values : MethodAppend(t, op, v)
  \/ \E t \in DOMAIN chains : MethodStringify(t)
  \/ \E t \in DOMAIN chains, l \in DOMAIN chains, r \in DOMAIN chains, c \in Combinators :
       MethodCombine(t, l, c, r)

Spec == Init /\ [][Next]_vars

\* one chain, followed through more calls; no combine
InitChain ==
  /\ chains = <<>>
  /\ heap = <<>>
  /\ last = NoCall
  /\ calls = 0
  /\ hist = <<>>
  /\ budget = [chains |-> 1, calls |-> MaxChainCalls]
  /\ nested = NoNested
  /\ rect = NoRect
  /\ closure = NoRect
  /\ area = 0
  /\ rectLast = "none"
  /\ assigned = FALSE
  /\ rectCalls = 0

NextChain ==
  \/ \E op \in AppendOps, v \in Values : FacadeAppend(op, v)
  \/ \E t \in DOMAIN chains, op \in AppendOps, v \in Values : MethodAppend(t, op, v)
  \/ \E t \in DOMAIN chains : MethodStringify(t)

SpecChain == InitChain /\ [][NextChain]_vars

\* up to three operand chains are built, then a double combine is nested
\* both ways (which makes four chains more)
InitNested ==
  /\ chains = <<>>
  /\ heap = <<>>
  /\ last = NoCall
  /\ calls = 0
  /\ hist = <<>>
  /\ budget = [chains |-> MaxOperands + 4, calls |-> MaxNestedCalls]
  /\ nested = NoNested
  /\ rect = NoRect
  /\ closure = NoRect
  /\ area = 0
  /\ rectLast = "none"
  /\ assigned = FALSE
  /\ rectCalls = 0

NextNested ==
  \/ \E op \in AppendOps, v \in Values : ~nested.done /\ Len(chains) < MaxOperands /\ FacadeAppend(op, v)
  \/ \E t \in DOMAIN chains, op \in AppendOps, v \in Values : ~nested.done /\ MethodAppend(t, op, v)
  \/ \E t \in DOMAIN chains : ~nested.done /\ MethodStringify(t)
  \/ /\ ~nested.done
     /\ \E a \in DOMAIN chains, b \in DOMAIN chains, d \in DOMAIN chains :
          \E c1 \in Combinators, c2 \in Combinators : NestedCombine(a, c1, b, c2, d)

SpecNested == InitNested /\ [][NextNested]_vars

NextRect ==
  \/ \E w \in Dims, h \in Dims : NewRectangle(w, h)
  \/ \E v \in Dims : SetWidth(v)
  \/ \E v \in Dims : SetHeight(v)
  \/ GetArea

SpecRect == Init /\ [][NextRect]_vars

(* ------------------------- vocabulary of the claims -------------------- *)

\* the fragments a chain currently holds
Frags(c) == heap[chains[c].cssArray]

\* category ranks: element(0) < id(1) < class(2) < attr(3) < pseudoClass(4) < pseudoElement(5)
Rank(op) ==
  CASE op = "element"       -> 0
    [] op = "id"            -> 1
    [] op = "class"         -> 2
    [] op = "attr"          -> 3
    [] op = "pseudoClass"   -> 4
    [] op = "pseudoElement" -> 5

\* the canonical renderings name, #name, .name, [spec], :name, ::name
Rendering(op, value) ==
  CASE op = "element"       -> value
    [] op = "id"            -> "#" \o value
    [] op = "class"         -> "." \o value
    [] op = "attr"          -> "[" \o value \o "]"
    [] op = "pseudoClass"   -> ":" \o value
    [] op = "pseudoElement" -> "::" \o value

\* the renderings of a sequence of calls, one after the other
RECURSIVE ConcatRenderings(_)
ConcatRenderings(log) ==
  IF log = <<>> THEN ""
  ELSE Rendering(Head(log).op, Head(log).value) \o ConcatRenderings(Tail(log))

\* the category a held fragment belongs to, read off its text
FragOps(f) == {op \in AppendOps : \E v \in Values : f = Rendering(op, v)}

\* how many fragments of category op a chain holds
CountOf(c, op) == Cardinality({i \in DOMAIN Frags(c) : op \in FragOps(Frags(c)[i])})

\* a chain written only by append calls, before its first stringify
AppendOnly(c) == hist[c].stringifies = 0 /\ ~hist[c].combined

Exclusive == {"element", "id", "pseudoElement"}

Repeatable == {"class", "attr", "pseudoClass"}

(* -------------------------------- C1 ----------------------------------- *)

\* C1: on a chain created by the facade and written only by accepted append
\* calls, the first stringify() returns the renderings of those calls
\* concatenated in call order with no separator.
C1_StringifyConcatenatesRenderings ==
  (/\ last.op = "stringify"
   /\ hist[last.chain].stringifies = 1
   /\ ~hist[last.chain].combined)
  => last.result = ConcatRenderings(hist[last.chain].log)

\* id('a').class('a').class('b').stringify() has returned '#a.a.b'
C1_Witness ==
  /\ last.op = "stringify"
  /\ hist[last.chain].stringifies = 1
  /\ hist[last.chain].log = << [op |-> "id", value |-> "a"],
                               [op |-> "class", value |-> "a"],
                               [op |-> "class", value |-> "b"] >>
  /\ last.result = "#a.a.b"

(* -------------------------------- C2 ----------------------------------- *)

\* C2: before its first stringify, a chain accepts an append of rank r only
\* if no fragment of a higher rank was accepted on it before (the ranks of
\* the accepted calls never decrease); so the fragments held by a chain
\* written only by append calls are exactly those calls' renderings, with
\* ranks non-decreasing from first to last.
C2_RanksNonDecreasing ==
  \A c \in DOMAIN chains :
    hist[c].stringifies = 0 =>
      LET log == hist[c].log IN
      /\ \A i \in DOMAIN log : \A j \in DOMAIN log :
           i < j => Rank(log[i].op) <= Rank(log[j].op)
      /\ ~hist[c].combined =>
           /\ Len(Frags(c)) = Len(log)
           /\ \A i \in DOMAIN log : FragOps(Frags(c)[i]) = {log[i].op}
           /\ \A i \in DOMAIN Frags(c) : \A j \in DOMAIN Frags(c) :
                i < j => \A p \in FragOps(Frags(c)[i]) : \A q \in FragOps(Frags(c)[j]) :
                           Rank(p) <= Rank(q)

\* attr was accepted, then class was tried on the same chain and rejected
C2_Witness ==
  /\ last.op = "class"
  /\ last.outcome = OutOfOrder
  /\ hist[last.chain].stringifies = 0
  /\ Len(hist[last.chain].log) >= 2
  /\ hist[last.chain].log[Len(hist[last.chain].log)].op = "attr"
  /\ Len(Frags(last.chain)) = Len(hist[last.chain].log)

(* -------------------------------- C3 ----------------------------------- *)

\* C3: a chain written only by append calls (accepted or rejected), before
\* its first stringify, holds at most one element fragment, at most one id
\* fragment and at most one pseudo-element fragment.
C3_AtMostOneExclusive ==
  \A c \in DOMAIN chains :
    AppendOnly(c) => \A op \in Exclusive : CountOf(c, op) <= 1

\* element and id are held, other fragments followed, and a second element
\* was tried and rejected
C3_Witness ==
  /\ last.op = "element"
  /\ last.outcome # "ok"
  /\ AppendOnly(last.chain)
  /\ CountOf(last.chain, "element") = 1
  /\ CountOf(last.chain, "id") = 1
  /\ chains[last.chain].previousSelector = ""

(* -------------------------------- C4 ----------------------------------- *)

\* the fragments a chain holds after the step
FragsNext(c) == heap'[chains'[c].cssArray]

\* the step is a call (facade or method)
CallStep == calls' = calls + 1

\* C4: combine(left, combinator, right) sets the receiver's fragments to its
\* previous fragments (none for a chain the facade just made), then left's,
\* then the one fragment ' ' + combinator + ' ', then right's; and a
\* stringify() right after a facade combine returns the rendering of left,
\* then ' combinator ', then the rendering of right.
C4_CombineSplices ==
  [][ /\ (CallStep /\ last'.op = "combine") =>
           FragsNext(last'.chain) =
             (IF last'.facade THEN <<>> ELSE Frags(last'.chain))
               \o Frags(last'.left)
               \o << " " \o last'.value \o " " >>
               \o Frags(last'.right)
      /\ (/\ CallStep
          /\ last.op = "combine" /\ last.facade
          /\ last'.op = "stringify" /\ last'.chain = last.chain) =>
           last'.result = Join(Frags(last.left)) \o " " \o last.value \o " "
                            \o Join(Frags(last.right))
    ]_vars

\* a facade combine with combinator ' ' was stringified: three spaces
C4_Witness ==
  /\ last.op = "stringify"
  /\ hist[last.chain].combined
  /\ hist[last.chain].log = <<>>
  /\ hist[last.chain].stringifies = 1
  /\ last.result = "#a   #a"

(* -------------------------------- C5 ----------------------------------- *)

\* C5: after stringify() the chain is as a newly constructed one: every
\* append call (each is accepted on a new chain) is accepted on it.
C5_StringifyResetsToFresh ==
  last.op = "stringify" =>
    /\ Frags(last.chain) = <<>>
    /\ \A op \in AppendOps : \A v \in Values :
         CallAppend(Store, last.chain, op, v).outcome = "ok"

(* -------------------------------- C6 ----------------------------------- *)

\* the append calls accepted on the chain of the last call before that call
PriorLog ==
  LET log == hist[last.chain].log IN
  IF last.op \in AppendOps /\ last.outcome = "ok"
  THEN SubSeq(log, 1, Len(log) - 1)
  ELSE log

\* C6: element on a chain that already accepted an element (likewise id, and
\* pseudoElement) fails with DuplicateExclusive whatever was accepted in
\* between; id after class fails with OutOfOrder.
C6_RepeatedExclusiveIsDuplicate ==
  (last.op \in AppendOps /\ hist[last.chain].stringifies = 0) =>
    /\ (/\ last.op \in Exclusive
        /\ \E i \in DOMAIN PriorLog : PriorLog[i].op = last.op)
         => last.outcome = DuplicateExclusive
    /\ (/\ last.op = "id"
        /\ \E i \in DOMAIN PriorLog : PriorLog[i].op = "class"
        /\ \A i \in DOMAIN PriorLog : PriorLog[i].op # "id")
         => last.outcome = OutOfOrder

(* -------------------------------- C7 ----------------------------------- *)

\* C7: a class (attr, pseudoClass) call that immediately follows an accepted
\* call of the same kind on the same chain is accepted and its fragment is
\* added after the ones held; an element (id, pseudoElement) call that
\* immediately follows an accepted call of the same kind is rejected.
C7_RepeatableRepeatExclusiveDoNot ==
  [][ (/\ CallStep
       /\ last.op \in AppendOps /\ last.outcome = "ok"
       /\ ~last'.facade
       /\ last'.chain = last.chain /\ last'.op = last.op) =>
        /\ last.op \in Repeatable =>
             /\ last'.outcome = "ok"
             /\ FragsNext(last.chain) =
                  Append(Frags(last.chain), Rendering(last'.op, last'.value))
        /\ last.op \in Exclusive =>
             /\ last'.outcome # "ok"
             /\ FragsNext(last.chain) = Frags(last.chain)
    ]_vars

\* class('a').class('b').class('a') were accepted one after the other
C7_Witness ==
  /\ last.op = "class" /\ last.outcome = "ok"
  /\ hist[last.chain].stringifies = 0
  /\ hist[last.chain].log = << [op |-> "class", value |-> "a"],
                               [op |-> "class", value |-> "b"],
                               [op |-> "class", value |-> "a"] >>
  /\ Frags(last.chain) = <<".a", ".b", ".a">>

(* -------------------------------- C8 ----------------------------------- *)

\* C8: a facade call returns a new chain holding what its one operation
\* makes of an empty chain, and no call changes the fragments, the rank or
\* the last-exclusive tracking of any chain other than its receiver.
C8_ChainsIndependent ==
  [][ CallStep =>
        /\ \A d \in DOMAIN chains :
             d # last'.chain =>
               /\ chains'[d].previousSelector = chains[d].previousSelector
               /\ chains'[d].order = chains[d].order
               /\ FragsNext(d) = Frags(d)
        /\ last'.facade =>
             /\ last'.outcome = "ok"
             /\ last'.chain = Len(chains) + 1
             /\ Len(chains') = Len(chains) + 1
             /\ IF last'.op = "combine"
                THEN /\ FragsNext(last'.chain) =
                          Frags(last'.left) \o << " " \o last'.value \o " " >>
                            \o Frags(last'.right)
                     /\ chains'[last'.chain].order = -1
                     /\ chains'[last'.chain].previousSelector = ""
                ELSE /\ FragsNext(last'.chain) = << Rendering(last'.op, last'.value) >>
                     /\ chains'[last'.chain].order = Rank(last'.op)
                     /\ chains'[last'.chain].previousSelector =
                          (IF last'.op \in Exclusive THEN last'.op ELSE "")
        /\ ~last'.facade => Len(chains') = Len(chains)
    ]_vars

\* chain 1 was an operand of the facade combine that made chain 2, then took
\* another fragment; chain 2 holds what it was given
C8_Witness ==
  /\ Len(chains) = 2
  /\ hist[2].combined
  /\ last.chain = 1 /\ last.op = "class" /\ last.outcome = "ok"
  /\ Frags(1) = <<"a", ".b">>
  /\ Frags(2) = <<"a", " + ", "a">>
  /\ chains[2].order = -1

(* -------------------------------- C9 ----------------------------------- *)

\* C9: getArea() returns the product of the current values of the object's
\* width and height fields, whatever was assigned to them.
C9_AreaReflectsFields ==
  rectLast = "getArea" => area = rect.width * rect.height

(* -------------------------------- C10 ---------------------------------- *)

\* C10: as long as no field was assigned, the object made by Rectangle(w, h)
\* has width = w and height = h, and getArea() returns w * h.
C10_UnmodifiedRectangle ==
  (rectLast # "none" /\ ~assigned) =>
    /\ rect.width = closure.width
    /\ rect.height = closure.height
    /\ rectLast = "getArea" => area = closure.width * closure.height

\* Rectangle(2, 3).getArea() has returned 6
C10_Witness ==
  /\ rectLast = "getArea"
  /\ ~assigned
  /\ rect = [width |-> 2, height |-> 3]
  /\ area = 6

(* -------------------------------- C11 ---------------------------------- *)

\* C11 as stated: a class call right after an accepted pseudoElement call on
\* the same chain raises no error.
C11_ClassAfterPseudoElementAccepted ==
  (/\ last.op = "class"
   /\ PriorLog # <<>>
   /\ PriorLog[Len(PriorLog)].op = "pseudoElement"
   /\ hist[last.chain].stringifies = 0)
  => last.outcome = "ok"

\* C11 amended: pseudoElement makes no ordering check of its own, but it sets
\* order to 5, so once a pseudo-element was accepted on a chain every later
\* call of a lower-ranked category (element, id, class, attr, pseudoClass)
\* on that chain is rejected with the ordering error.
C11_LowerRankAfterPseudoElementRejected ==
  (/\ last.op \in AppendOps
   /\ Rank(last.op) < 5
   /\ \E i \in DOMAIN PriorLog : PriorLog[i].op = "pseudoElement")
  => last.outcome = OutOfOrder

\* pseudoElement('a') was accepted and class('b') then rejected
C11_Witness ==
  /\ last.op = "class" /\ last.value = "b"
  /\ last.outcome = OutOfOrder
  /\ hist[last.chain].log = << [op |-> "pseudoElement", value |-> "a"] >>
  /\ Frags(last.chain) = << "::a" >>

(* -------------------------------- C12 ---------------------------------- *)

\* C12: a pseudoElement call either succeeds or fails with the duplicate
\* error, never with the ordering error, and it succeeds exactly when the
\* chain's previousSelector is not 'pseudoElement' (a chain the facade has
\* just constructed has previousSelector '').
C12_PseudoElementOnlyDuplicateCheck ==
  [][ (CallStep /\ last'.op = "pseudoElement") =>
        /\ last'.outcome \in {"ok", DuplicateExclusive}
        /\ last'.outcome = "ok" <=>
             (\/ last'.facade
              \/ chains[last'.chain].previousSelector # "pseudoElement")
    ]_vars

\* pseudoElement was accepted a second time on a chain of order 5, after a
\* stringify had cleared previousSelector
C12_Witness ==
  /\ last.op = "pseudoElement" /\ last.outcome = "ok"
  /\ hist[last.chain].stringifies = 1
  /\ Len(PriorLog) >= 1
  /\ PriorLog[Len(PriorLog)].op = "pseudoElement"
  /\ Frags(last.chain) = << "::" \o last.value >>

(* -------------------------------- C15 ---------------------------------- *)

\* C15: an append call that throws (the duplicate or the ordering error)
\* leaves every chain and every array exactly as it was.
C15_RejectedAppendChangesNothing ==
  [][ (CallStep /\ last'.op \in AppendOps /\ last'.outcome # "ok") =>
        /\ last'.outcome \in {DuplicateExclusive, OutOfOrder}
        /\ chains' = chains
        /\ heap' = heap
    ]_vars

\* class('a') holds; id was then rejected and the chain is as before
C15_Witness ==
  /\ last.op = "id" /\ last.outcome = OutOfOrder
  /\ hist[last.chain].log = << [op |-> "class", value |-> "a"] >>
  /\ Frags(last.chain) = << ".a" >>
  /\ chains[last.chain].order = 2
  /\ chains[last.chain].previousSelector = ""

(* -------------------------------- C13 ---------------------------------- *)

\* what a combine step leaves alone: the receiver's rank and tracking (those
\* of the constructor for a chain the facade just made) and, for every chain
\* of `operands`, its fragments, rank and tracking
CombineFrame(operands) ==
  /\ last'.outcome = "ok"
  /\ chains'[last'.chain].order =
       (IF last'.facade THEN -1 ELSE chains[last'.chain].order)
  /\ chains'[last'.chain].previousSelector =
       (IF last'.facade THEN "" ELSE chains[last'.chain].previousSelector)
  /\ \A d \in operands :
       /\ chains'[d].order = chains[d].order
       /\ chains'[d].previousSelector = chains[d].previousSelector
       /\ FragsNext(d) = Frags(d)

\* C13 as stated: combine never throws, leaves the receiver's rank and
\* tracking unchanged and leaves the fragments, rank and tracking of its left
\* and right operands unchanged, also when an operand is the receiver itself.
C13_CombineLeavesOperands ==
  [][ (CallStep /\ last'.op = "combine") =>
        CombineFrame({last'.left, last'.right})
    ]_vars

\* C13 amended: the same, for the operands other than the receiver (the
\* receiver's own fragments are replaced, also when it is its own operand).
C13_CombineLeavesOtherOperands ==
  [][ (CallStep /\ last'.op = "combine") =>
        CombineFrame({last'.left, last'.right} \ {last'.chain})
    ]_vars

\* id('a') has combined element('a') with itself: it keeps order 1 and
\* previousSelector 'id', the operand keeps its one fragment
C13_Witness ==
  /\ last.op = "combine" /\ ~last.facade /\ last.outcome = "ok"
  /\ last.left # last.chain /\ last.right = last.left
  /\ chains[last.chain].order = 1
  /\ chains[last.chain].previousSelector = "id"
  /\ Frags(last.chain) = << "#a", "a", " + ", "a" >>
  /\ Frags(last.left) = << "a" >>
  /\ chains[last.left].order = 0
  /\ chains[last.left].previousSelector = "element"

(* -------------------------------- C16 ---------------------------------- *)

\* the highest rank among a sequence of accepted calls, -1 if there is none
RECURSIVE HighestRank(_)
HighestRank(log) ==
  IF log = <<>> THEN -1
  ELSE LET rest == HighestRank(Tail(log)) IN
       IF Rank(Head(log).op) > rest THEN Rank(Head(log).op) ELSE rest

\* C16: no call (append, combine or stringify) lowers a chain's order; the
\* order equals the highest rank accepted on the chain since construction
\* (-1 if none); and the ranks accepted on a chain never decrease, across
\* stringify too.
C16_OrderIsRunningMaximum ==
  [][ /\ \A c \in DOMAIN chains : chains'[c].order >= chains[c].order
      /\ \A c \in DOMAIN chains' :
           /\ chains'[c].order = HighestRank(hist'[c].log)
           /\ \A i \in DOMAIN hist'[c].log : \A j \in DOMAIN hist'[c].log :
                i < j => Rank(hist'[c].log[i].op) <= Rank(hist'[c].log[j].op)
    ]_vars

\* id('a') was stringified and element('b') then rejected: the order is
\* still 1
C16_Witness ==
  /\ last.op = "element" /\ last.outcome = OutOfOrder
  /\ hist[last.chain].stringifies = 1
  /\ hist[last.chain].log = << [op |-> "id", value |-> "a"] >>
  /\ chains[last.chain].order = 1
  /\ chains[last.chain].previousSelector = ""
  /\ Frags(last.chain) = <<>>

(* -------------------------------- C14 ---------------------------------- *)

\* the append calls accepted on a chain since its last stringify (since its
\* construction if it was never stringified)
SinceStringify(c) == SubSeq(hist[c].log, hist[c].mark + 1, Len(hist[c].log))

\* C14: stringify() leaves the chain with no fragments; a stringify() right
\* after another on the same chain returns the empty string; and on a chain
\* written only by append calls stringify() returns the renderings of the
\* calls accepted since the previous stringify, and nothing older.
C14_StringifyIsOneShot ==
  [][ (CallStep /\ last'.op = "stringify") =>
        /\ FragsNext(last'.chain) = <<>>
        /\ (last.op = "stringify" /\ last.chain = last'.chain) => last'.result = ""
        /\ ~hist[last'.chain].combined =>
             last'.result = ConcatRenderings(SinceStringify(last'.chain))
    ]_vars

\* id('a') was stringified, class('b') added, and the second stringify
\* returned '.b' alone
C14_Witness ==
  /\ last.op = "stringify"
  /\ hist[last.chain].stringifies = 2
  /\ hist[last.chain].log = << [op |-> "id", value |-> "a"],
                               [op |-> "class", value |-> "b"] >>
  /\ last.result = ".b"
  /\ Frags(last.chain) = <<>>

(* -------------------------------- C17 ---------------------------------- *)

\* C17: combine(combine(a, c1, b), c2, d).stringify() and
\* combine(a, c1, combine(b, c2, d)).stringify() return the same string: the
\* fragments of a, ' c1 ', the fragments of b, ' c2 ', the fragments of d.
C17_CombineAssociative ==
  nested.done =>
    /\ nested.left = nested.right
    /\ nested.left = Join(Frags(nested.a)) \o " " \o nested.c1 \o " "
                       \o Join(Frags(nested.b)) \o " " \o nested.c2 \o " "
                       \o Join(Frags(nested.d))

\* a = element('a'), b = id('b'); combine(combine(a,'+',b),' ',a) and
\* combine(a,'+',combine(b,' ',a)) both rendered 'a + #b   a'
C17_Witness ==
  /\ nested.done
  /\ nested.a # nested.b
  /\ nested.c1 = "+" /\ nested.c2 = " "
  /\ Frags(nested.a) = << "a" >>
  /\ Frags(nested.b) = << "#b" >>
  /\ nested.left = "a + #b   a"
  /\ nested.right = "a + #b   a"

=============================================================================
